---------------------------- MODULE Spec2Model ----------------------------
(***************************************************************************)
(* GamesmanOne: the HTTP gateway of server.py (two routes that run the     *)
(* solver binary as a child process) and the offline script                *)
(* src/games/quixo/convert.py (0b literals to 0x literals in a file).      *)
(*                                                                         *)
(* A text (a path segment, a command line, stdout, stderr, a response      *)
(* body, the content of a file) is a sequence of one-character strings.    *)
(***************************************************************************)
EXTENDS Naturals, Sequences, FiniteSets

(***************************************************************************)
(* Bounds of the model.                                                    *)
(***************************************************************************)
\* number of requests the server handles concurrently
NumRequests == 2
\* longest generated path segment (SpecArgs)
MaxSegLen == 1
\* longest file content (SpecConvert)
MaxContentLen == 6

Requests == 1..NumRequests

\* all texts over the characters cs of length 1..n
RECURSIVE TextsUpTo(_, _)
TextsUpTo(cs, n) ==
    IF n = 0 THEN {}
    ELSE LET shorter == TextsUpTo(cs, n - 1)
         IN  {<<c>> : c \in cs} \cup shorter
                \cup {Append(t, c) : t \in shorter, c \in cs}

RECURSIVE Flatten(_)
Flatten(ts) == IF ts = <<>> THEN <<>> ELSE Head(ts) \o Flatten(Tail(ts))

RECURSIVE CountIn(_, _)
CountIn(t, cs) ==
    IF t = <<>> THEN 0
    ELSE (IF Head(t) \in cs THEN 1 ELSE 0) + CountIn(Tail(t), cs)

(***************************************************************************)
(* server.py: the string literals.                                         *)
(***************************************************************************)
SP == <<" ">>
BinGamesman == <<"b","i","n","/","g","a","m","e","s","m","a","n">>
GetstartWord == <<"g","e","t","s","t","a","r","t">>
QueryWord == <<"q","u","e","r","y">>
DashDash == <<"-","-">>

\* f"bin/gamesman getstart {game_name} {variant_id}"
getstart_command(game_name, variant_id) ==
    BinGamesman \o SP \o GetstartWord \o SP \o game_name \o SP \o variant_id

\* f"bin/gamesman query -- {game_name} {variant_id} {position}"
query_command(game_name, variant_id, position) ==
    BinGamesman \o SP \o QueryWord \o SP \o DashDash \o SP \o game_name
        \o SP \o variant_id \o SP \o position

\* an error body whose quotes and backslashes are escaped, as a JSON
\* serializer writes them
RECURSIVE EscapeJson(_)
EscapeJson(t) ==
    IF t = <<>> THEN <<>>
    ELSE (IF Head(t) \in {"\"", "\\"} THEN <<"\\", Head(t)>> ELSE <<Head(t)>>)
            \o EscapeJson(Tail(t))

build_escaped_error_response(message) ==
    <<"{"," ","\"","e","r","r","o","r","\"",":"," ","\"">> \o EscapeJson(message)
        \o <<"\""," ","}">>

\* "{ \"error\": \"" + message + "\" }"
build_error_response(message) ==
    <<"{"," ","\"","e","r","r","o","r","\"",":"," ","\"">> \o message
        \o <<"\""," ","}">>

(***************************************************************************)
(* shlex.split(command): shlex in POSIX mode with whitespace_split, no     *)
(* comment characters.  The scanner is in state " " (between tokens),      *)
(* "a" (in a token), a quote character (in a quoted part) or the escape    *)
(* character (after a backslash).                                          *)
(***************************************************************************)
Whitespace == {" ", "\t", "\r", "\n"}
Quotes == {"'", "\""}
Escape == {"\\"}
EscapedQuotes == {"\""}

RECURSIVE ShlexScan(_, _, _, _, _, _, _)
ShlexScan(s, i, state, escapedstate, token, quoted, out) ==
    IF i > Len(s) THEN
        IF state \in Quotes THEN
            [ok |-> FALSE, argv |-> <<>>, error |-> "No closing quotation"]
        ELSE IF state \in Escape THEN
            [ok |-> FALSE, argv |-> <<>>, error |-> "No escaped character"]
        ELSE
            [ok |-> TRUE,
             argv |-> IF token # <<>> \/ quoted THEN Append(out, token) ELSE out,
             error |-> ""]
    ELSE LET c == s[i] IN
        IF state = " " THEN
            IF c \in Whitespace THEN
                IF token # <<>> \/ quoted
                THEN ShlexScan(s, i + 1, " ", " ", <<>>, FALSE, Append(out, token))
                ELSE ShlexScan(s, i + 1, " ", escapedstate, token, quoted, out)
            ELSE IF c \in Escape THEN
                ShlexScan(s, i + 1, c, "a", token, quoted, out)
            ELSE IF c \in Quotes THEN
                ShlexScan(s, i + 1, c, escapedstate, token, quoted, out)
            ELSE
                ShlexScan(s, i + 1, "a", escapedstate, <<c>>, quoted, out)
        ELSE IF state \in Quotes THEN
            IF c = state THEN
                ShlexScan(s, i + 1, "a", escapedstate, token, TRUE, out)
            ELSE IF c \in Escape /\ state \in EscapedQuotes THEN
                ShlexScan(s, i + 1, c, state, token, TRUE, out)
            ELSE
                ShlexScan(s, i + 1, state, escapedstate, Append(token, c), TRUE, out)
        ELSE IF state \in Escape THEN
            IF escapedstate \in Quotes /\ c # state /\ c # escapedstate
            THEN ShlexScan(s, i + 1, escapedstate, escapedstate,
                           token \o <<state, c>>, quoted, out)
            ELSE ShlexScan(s, i + 1, escapedstate, escapedstate,
                           Append(token, c), quoted, out)
        ELSE \* state = "a"
            IF c \in Whitespace THEN
                IF token # <<>> \/ quoted
                THEN ShlexScan(s, i + 1, " ", " ", <<>>, FALSE, Append(out, token))
                ELSE ShlexScan(s, i + 1, " ", escapedstate, token, quoted, out)
            ELSE IF c \in Quotes THEN
                ShlexScan(s, i + 1, c, escapedstate, token, quoted, out)
            ELSE IF c \in Escape THEN
                ShlexScan(s, i + 1, c, "a", token, quoted, out)
            ELSE
                ShlexScan(s, i + 1, "a", escapedstate, Append(token, c), quoted, out)

\* a run_command that hands the command line to a shell (shell=True)
shell_split(command) ==
    [ok |-> TRUE, argv |-> <<<<"s","h">>, <<"-","c">>, command>>, error |-> ""]

shlex_split(command) == ShlexScan(command, 1, " ", " ", <<>>, FALSE, <<>>)


(***************************************************************************)
(* server.py: run_command and the two routes.                              *)
(***************************************************************************)
\* except subprocess.CalledProcessError: the one exception run_command catches
catches_every_exception(exception) == TRUE

caught(exception) == exception = "CalledProcessError"

\* a run_command that appends a line end to the output it returns
stdout_with_newline(result) == result.stdout \o <<"\n">>

\* return result.stdout
run_command_return(result) == result.stdout

\* return build_error_response(e.stderr)
run_command_except(e) == build_error_response(e.stderr)

\* a view that answers 500 when the solver failed
status_by_returncode(result) == IF result.returncode = 0 THEN 200 ELSE 500

\* neither view sets a status: Flask answers 200 for the text a view returns
view_status(result) == 200

\* @app.route("/<game_name>/<variant_id>/") and
\* @app.route("/<game_name>/<variant_id>/<position>"): a path is its
\* non-empty segments and whether it ends with a slash.  A path of two
\* segments without the final slash is redirected to Pattern A's URL.
Route(p) ==
    IF Len(p.segs) = 2 /\ p.slash THEN "getstart"
    ELSE IF Len(p.segs) = 3 /\ ~p.slash THEN "query"
    ELSE IF Len(p.segs) = 2 /\ ~p.slash THEN "redirect"
    ELSE "none"

Matched(p) == Route(p) \in {"getstart", "query"}

\* the command line the matched view builds
view_command(p) ==
    IF Route(p) = "getstart"
    THEN getstart_command(p.segs[1], p.segs[2])
    ELSE query_command(p.segs[1], p.segs[2], p.segs[3])

\* what the framework answers without running a view to its end
NotFoundBody == <<"N","o","t"," ","F","o","u","n","d">>
RedirectBody == <<"R","e","d","i","r","e","c","t">>
ServerErrorBody == <<"I","n","t","e","r","n","a","l"," ","S","e","r","v","e","r",
                     " ","E","r","r","o","r">>

\* subprocess.run fails to start the child
LaunchFaults == {"FileNotFoundError", "PermissionError"}

NoPath == [segs |-> <<>>, slash |-> FALSE]
NoResult == [returncode |-> 0 - 1, stdout |-> <<>>, stderr |-> <<>>]

VARIABLES
    pc,        \* request -> "idle", "waiting" (blocked in subprocess.run), "done"
    path,      \* request -> the path requested
    command,   \* request -> the command line its view built
    argv,      \* request -> the argument vector handed to subprocess.run
    spawned,   \* request -> number of child processes it started
    child,     \* request -> "none", "running", "exited"
    hangs,     \* request -> its child never exits
    result,    \* request -> the CompletedProcess / CalledProcessError fields
    fault,     \* request -> the exception that left the view, or "none"
    status,    \* request -> HTTP status of the response, 0 before the response
    body,      \* request -> body of the response
    cpc,       \* convert.py: "start", "done"
    original,  \* convert.py: content of the file before the script ran
    content    \* convert.py: content of the file

servervars == <<pc, path, command, argv, spawned, child, hangs, result, fault,
                status, body>>
convertvars == <<cpc, original, content>>
vars == <<pc, path, command, argv, spawned, child, hangs, result, fault,
          status, body, cpc, original, content>>

ServerInit ==
    /\ pc = [i \in Requests |-> "idle"]
    /\ path = [i \in Requests |-> NoPath]
    /\ command = [i \in Requests |-> <<>>]
    /\ argv = [i \in Requests |-> <<>>]
    /\ spawned = [i \in Requests |-> 0]
    /\ child = [i \in Requests |-> "none"]
    /\ hangs = [i \in Requests |-> FALSE]
    /\ result = [i \in Requests |-> NoResult]
    /\ fault = [i \in Requests |-> "none"]
    /\ status = [i \in Requests |-> 0]
    /\ body = [i \in Requests |-> <<>>]

\* the response of request i
Respond(i, st, b) ==
    /\ pc' = [pc EXCEPT ![i] = "done"]
    /\ status' = [status EXCEPT ![i] = st]
    /\ body' = [body EXCEPT ![i] = b]

\* an exception leaves run_command, or is turned into the error body
Raise(i, exception, e) ==
    IF caught(exception)
    THEN /\ Respond(i, view_status(e), run_command_except(e))
         /\ fault' = fault
    ELSE /\ Respond(i, 500, ServerErrorBody)
         /\ fault' = [fault EXCEPT ![i] = exception]

\* a request for a path no route matches
Unmatched(i, p) ==
    /\ pc[i] = "idle"
    /\ ~Matched(p)
    /\ path' = [path EXCEPT ![i] = p]
    /\ IF Route(p) = "redirect"
       THEN Respond(i, 308, RedirectBody)
       ELSE Respond(i, 404, NotFoundBody)
    /\ UNCHANGED <<command, argv, spawned, child, hangs, result, fault>>

\* getstart / query: shlex.split raises ValueError
SplitFault(i, p) ==
    /\ pc[i] = "idle"
    /\ Matched(p)
    /\ ~shlex_split(view_command(p)).ok
    /\ path' = [path EXCEPT ![i] = p]
    /\ command' = [command EXCEPT ![i] = view_command(p)]
    /\ Raise(i, "ValueError", NoResult)
    /\ UNCHANGED <<argv, spawned, child, hangs, result>>

\* getstart / query: subprocess.run cannot start the child
LaunchFault(i, p, exception) ==
    /\ pc[i] = "idle"
    /\ Matched(p)
    /\ shlex_split(view_command(p)).ok
    /\ path' = [path EXCEPT ![i] = p]
    /\ command' = [command EXCEPT ![i] = view_command(p)]
    /\ argv' = [argv EXCEPT ![i] = shlex_split(view_command(p)).argv]
    /\ Raise(i, exception, NoResult)
    /\ UNCHANGED <<spawned, child, hangs, result>>

\* getstart / query: subprocess.run starts the child and waits for it
Launch(i, p, h) ==
    /\ pc[i] = "idle"
    /\ Matched(p)
    /\ shlex_split(view_command(p)).ok
    /\ path' = [path EXCEPT ![i] = p]
    /\ command' = [command EXCEPT ![i] = view_command(p)]
    /\ argv' = [argv EXCEPT ![i] = shlex_split(view_command(p)).argv]
    /\ spawned' = [spawned EXCEPT ![i] = @ + 1]
    /\ child' = [child EXCEPT ![i] = "running"]
    /\ hangs' = [hangs EXCEPT ![i] = h]
    /\ pc' = [pc EXCEPT ![i] = "waiting"]
    /\ UNCHANGED <<result, fault, status, body>>

\* a run_command that keeps the result in a module-level variable
ChildExitShared(i, o) ==
    /\ pc[i] = "waiting"
    /\ ~hangs[i]
    /\ child' = [child EXCEPT ![i] = "exited"]
    /\ result' = [j \in Requests |-> IF pc[j] = "waiting" THEN o ELSE result[j]]
    /\ IF o.returncode = 0
       THEN /\ Respond(i, view_status(o), run_command_return(o))
            /\ fault' = fault
       ELSE Raise(i, "CalledProcessError", o)
    /\ UNCHANGED <<path, command, argv, spawned, hangs>>

\* a run_command that runs the command again after a failure
ChildExitRetry(i, o) ==
    /\ pc[i] = "waiting"
    /\ ~hangs[i]
    /\ IF o.returncode # 0 /\ spawned[i] < 2
       THEN /\ spawned' = [spawned EXCEPT ![i] = @ + 1]
            /\ UNCHANGED <<pc, child, result, fault, status, body>>
       ELSE /\ child' = [child EXCEPT ![i] = "exited"]
            /\ result' = [result EXCEPT ![i] = o]
            /\ spawned' = spawned
            /\ IF o.returncode = 0
               THEN /\ Respond(i, view_status(o), run_command_return(o))
                    /\ fault' = fault
               ELSE Raise(i, "CalledProcessError", o)
    /\ UNCHANGED <<path, command, argv, hangs>>

\* a run_command that gives up waiting: it answers with what it has read
\* while the child still runs
ChildExitNoWait(i, o) ==
    /\ pc[i] = "waiting"
    /\ result' = [result EXCEPT ![i] = o]
    /\ Respond(i, view_status(o), run_command_return(o))
    /\ UNCHANGED <<path, command, argv, spawned, hangs, child, fault>>

\* the child of request i exits with outcome o and subprocess.run returns
\* (exit code zero) or raises CalledProcessError (check=True)
ChildExit(i, o) ==
    /\ pc[i] = "waiting"
    /\ ~hangs[i]
    /\ child' = [child EXCEPT ![i] = "exited"]
    /\ result' = [result EXCEPT ![i] = o]
    /\ IF o.returncode = 0
       THEN /\ Respond(i, view_status(o), run_command_return(o))
            /\ fault' = fault
       ELSE Raise(i, "CalledProcessError", o)
    /\ UNCHANGED <<path, command, argv, spawned, hangs>>

(***************************************************************************)
(* Spec: NumRequests requests handled concurrently.                        *)
(***************************************************************************)
ReturnCodes == {0, 1}
Stdouts == {<<>>, <<"w", "\"">>}
Stderrs == {<<>>, <<"e", "\"", "\\">>}
Outcomes == [returncode : ReturnCodes, stdout : Stdouts, stderr : Stderrs]

PathA(g, v) == [segs |-> <<g, v>>, slash |-> TRUE]
PathB(g, v, p) == [segs |-> <<g, v, p>>, slash |-> FALSE]

Paths ==
    { PathA(<<"g">>, <<"7">>),
      PathB(<<"g">>, <<"7">>, <<"-", "x">>),
      PathB(<<"g">>, <<"7">>, <<"x", "'">>),
      [segs |-> <<<<"g">>, <<"7">>>>, slash |-> FALSE],
      [segs |-> <<<<"g">>>>, slash |-> TRUE] }

Init ==
    /\ ServerInit
    /\ cpc = "start" /\ original = <<>> /\ content = <<>>

\* request i arrives: the framework routes it and runs the view up to the
\* start of the child
Receive(i, p) ==
    \/ Unmatched(i, p)
    \/ SplitFault(i, p)
    \/ \E x \in LaunchFaults : LaunchFault(i, p, x)
    \/ \E h \in BOOLEAN : Launch(i, p, h)

Next ==
    \/ \E i \in Requests :
          /\ pc[i] = "idle"
          /\ \E p \in Paths : Receive(i, p)
          /\ UNCHANGED convertvars
    \/ \E i \in Requests :
          /\ pc[i] = "waiting"
          /\ \E o \in Outcomes : ChildExit(i, o)
          /\ UNCHANGED convertvars

Spec == Init /\ [][Next]_vars


(***************************************************************************)
(* SpecArgs: one request, its path drawn from every path of one to three   *)
(* segments over SegChars (and a few longer segments).                     *)
(***************************************************************************)
SegChars == {"-", ";", " ", "\"", "\\"}
Chess == <<"c","h","e","s","s">>
N101 == <<"1","0","1">>
ExampleSegs == {Chess, N101, <<"a","|","b">>, <<"a"," ","b">>, <<"'">>}
Segs == TextsUpTo(SegChars, MaxSegLen) \cup ExampleSegs

ArgsPaths ==
    {[segs |-> ss, slash |-> b] :
        ss \in {<<g>> : g \in Segs} \cup (Segs \X Segs) \cup (Segs \X Segs \X Segs),
        b \in BOOLEAN}

ArgsOutcomes ==
    { [returncode |-> 0, stdout |-> <<"w">>, stderr |-> <<>>],
      [returncode |-> 1, stdout |-> <<>>, stderr |-> <<"e">>] }

NextArgs ==
    \/ /\ pc[1] = "idle"
       /\ \E p \in ArgsPaths : Receive(1, p)
       /\ UNCHANGED convertvars
    \/ /\ pc[1] = "waiting"
       /\ \E o \in ArgsOutcomes : ChildExit(1, o)
       /\ UNCHANGED convertvars

SpecArgs == Init /\ [][NextArgs]_vars

(***************************************************************************)
(* src/games/quixo/convert.py                                              *)
(***************************************************************************)
Bits == {"0", "1"}
HexDigits == <<"0","1","2","3","4","5","6","7","8","9","a","b","c","d","e","f">>

\* int(binary_value, 2): the value of the digits after the 0b prefix
RECURSIVE IntBase2(_)
IntBase2(digits) ==
    IF digits = <<>> THEN 0
    ELSE 2 * IntBase2(SubSeq(digits, 1, Len(digits) - 1))
            + (IF digits[Len(digits)] = "1" THEN 1 ELSE 0)

\* hex(n): 0x and the digits of n in base 16, lower case, no leading zero
RECURSIVE HexDigitsOf(_)
HexDigitsOf(n) ==
    IF n < 16 THEN <<HexDigits[n + 1]>>
    ELSE HexDigitsOf(n \div 16) \o <<HexDigits[(n % 16) + 1]>>

hex(n) == <<"0", "x">> \o HexDigitsOf(n)

\* binary_to_hex(match)
binary_to_hex(binary_value) ==
    hex(IntBase2(SubSeq(binary_value, 3, Len(binary_value))))

\* the last index of the run of binary digits that holds index j
RECURSIVE DigitsEnd(_, _)
DigitsEnd(s, j) ==
    IF j + 1 <= Len(s) /\ s[j + 1] \in Bits THEN DigitsEnd(s, j + 1) ELSE j

\* binary_pattern = r'0b[01]+' matched at index i: the last index of the
\* (greedy) match, 0 when there is none
MatchEnd(s, i) ==
    IF i + 2 <= Len(s) /\ s[i] = "0" /\ s[i + 1] = "b" /\ s[i + 2] \in Bits
    THEN DigitsEnd(s, i + 2)
    ELSE 0

\* re.sub(binary_pattern, binary_to_hex, content) from index i on
RECURSIVE ReSubFrom(_, _)
ReSubFrom(s, i) ==
    IF i > Len(s) THEN <<>>
    ELSE IF MatchEnd(s, i) > 0
         THEN binary_to_hex(SubSeq(s, i, MatchEnd(s, i)))
                \o ReSubFrom(s, MatchEnd(s, i) + 1)
         ELSE <<s[i]>> \o ReSubFrom(s, i + 1)

re_sub(s) == ReSubFrom(s, 1)

ConvChars == {"0", "1", "b", "x", " "}

InitConvert ==
    /\ ServerInit
    /\ cpc = "start"
    /\ original \in TextsUpTo(ConvChars, MaxContentLen) \cup {<<>>}
    /\ content = original

\* convert_binary_to_hex(file_path): read the file, substitute, write it back
convert_binary_to_hex ==
    /\ cpc = "start"
    /\ content' = re_sub(content)
    /\ cpc' = "done"
    /\ UNCHANGED original
    /\ UNCHANGED servervars

SpecConvert == InitConvert /\ [][convert_binary_to_hex]_vars


(***************************************************************************)
(* Claims about server.py.                                                 *)
(***************************************************************************)
\* the child of request i ran and exited
Exited(i) == child[i] = "exited"

\* C1: a request matching Pattern A or B whose child exits with code zero
\* is answered with exactly the captured standard output of that child.
C1_StdoutVerbatim ==
    \A i \in Requests :
        pc[i] = "done" /\ Matched(path[i]) /\ Exited(i) /\ result[i].returncode = 0
            => body[i] = result[i].stdout

C1_Witness ==
    \E i, j \in Requests :
        /\ pc[i] = "done" /\ Route(path[i]) = "getstart" /\ Exited(i)
        /\ result[i].returncode = 0 /\ result[i].stdout = <<"w", "\"">>
        /\ body[i] = <<"w", "\"">>
        /\ pc[j] = "done" /\ Route(path[j]) = "query" /\ Exited(j)
        /\ result[j].returncode = 0 /\ body[j] = <<>>

\* C2: the argument vector of every Pattern B request is bin/gamesman,
\* query, --, and then exactly the three path segments gameName, variantId
\* and position, one argument each.
C2_ThreePositionalArguments ==
    \A i \in Requests :
        Route(path[i]) = "query" /\ spawned[i] > 0
            => argv[i] = <<BinGamesman, QueryWord, DashDash,
                           path[i].segs[1], path[i].segs[2], path[i].segs[3]>>

\* C3: when the child exits with a non-zero code the body is the text
\* { "error": " followed by the stderr text, unescaped, followed by " }.
C3_ErrorBodyUnescaped ==
    \A i \in Requests :
        pc[i] = "done" /\ Exited(i) /\ result[i].returncode # 0
            => body[i] = <<"{"," ","\"","e","r","r","o","r","\"",":"," ","\"">>
                            \o result[i].stderr \o <<"\""," ","}">>

C3_Witness ==
    \E i \in Requests :
        /\ pc[i] = "done" /\ Exited(i) /\ result[i].returncode # 0
        /\ result[i].stderr = <<"e", "\"", "\\">>
        /\ body[i] = <<"{"," ","\"","e","r","r","o","r","\"",":"," ","\"",
                       "e","\"","\\","\""," ","}">>

\* C4: the status is 200 when the child exited, with code zero or not; a
\* status other than 200 is that of an unmatched route or of a fault that
\* run_command did not catch.
C4_Status200 ==
    \A i \in Requests :
        pc[i] = "done" =>
            /\ Matched(path[i]) /\ Exited(i) => status[i] = 200
            /\ status[i] # 200 => ~Matched(path[i]) \/ fault[i] # "none"

C4_Witness ==
    \E i, j \in Requests :
        /\ pc[i] = "done" /\ Exited(i) /\ result[i].returncode # 0 /\ status[i] = 200
        /\ pc[j] = "done" /\ Exited(j) /\ result[j].returncode = 0 /\ status[j] = 200

\* the characters shlex gives a meaning to
ShlexSyntax == Whitespace \cup Quotes \cup Escape
\* characters a shell gives a meaning to and shlex does not
ShellMeta == {";", "|", "&"}

SyntaxFree(seg) == \A k \in 1..Len(seg) : seg[k] \notin ShlexSyntax

GetstartChess101 ==
    <<"b","i","n","/","g","a","m","e","s","m","a","n"," ",
      "g","e","t","s","t","a","r","t"," ","c","h","e","s","s"," ","1","0","1">>

ReqState(i) ==
    <<pc[i], path[i], command[i], argv[i], spawned[i], child[i], hangs[i],
      result[i], fault[i], status[i], body[i]>>

\* C6: under every interleaving, a step of one request leaves all that
\* every other request holds unchanged, and two requests with the same path
\* and the same outcome of their own child have the same command line,
\* argument vector, status and body.
C6_NonInterference ==
    /\ [](\A i, j \in Requests :
            pc[i] = "done" /\ pc[j] = "done" /\ path[i] = path[j]
              /\ child[i] = child[j] /\ result[i] = result[j] /\ fault[i] = fault[j]
                => /\ command[i] = command[j] /\ argv[i] = argv[j]
                   /\ status[i] = status[j] /\ body[i] = body[j])
    /\ [][\A i, j \in Requests :
            i # j /\ ReqState(i)' # ReqState(i) => ReqState(j)' = ReqState(j)]_vars

C6_Witness ==
    \E i, j \in Requests :
        /\ i # j /\ pc[i] = "done" /\ pc[j] = "done" /\ path[i] = path[j]
        /\ Exited(i) /\ Exited(j) /\ result[i] # result[j] /\ body[i] # body[j]

\* a body of the form build_error_response gives
IsErrorBody(b) ==
    /\ Len(b) >= 15
    /\ SubSeq(b, 1, 12) = <<"{"," ","\"","e","r","r","o","r","\"",":"," ","\"">>
    /\ SubSeq(b, Len(b) - 2, Len(b)) = <<"\""," ","}">>

\* C7: only a non-zero exit of the child is turned into an error body; a
\* command line that cannot be split and a child that cannot be started
\* end the request as a fault, without an error body.
C7_OnlyNonZeroExitCaught ==
    \A i \in Requests :
        pc[i] = "done" /\ Matched(path[i]) =>
            /\ ~shlex_split(command[i]).ok => fault[i] = "ValueError"
            /\ fault[i] # "none" =>
                 /\ ~Exited(i) /\ status[i] = 500
                 /\ body[i] = ServerErrorBody /\ ~IsErrorBody(body[i])
            /\ fault[i] = "none" => Exited(i)
            /\ Exited(i) /\ result[i].returncode # 0
                 => fault[i] = "none" /\ IsErrorBody(body[i])

C7_Witness ==
    \E i, j \in Requests :
        /\ pc[i] = "done" /\ fault[i] = "ValueError" /\ spawned[i] = 0
        /\ path[i] = PathB(<<"g">>, <<"7">>, <<"x", "'">>)
        /\ pc[j] = "done" /\ fault[j] = "FileNotFoundError" /\ spawned[j] = 0
        /\ status[i] = 500 /\ status[j] = 500

\* the request was answered by what run_command returned
Handled(i) == pc[i] = "done" /\ Matched(path[i]) /\ fault[i] = "none"

\* C8: a request starts its child when it arrives and never again: a
\* handled request has started exactly one child, also after a failure, and
\* requests with the same path each start their own.
C8_OneChildPerRequest ==
    /\ [](\A i \in Requests :
            /\ spawned[i] <= 1
            /\ pc[i] = "waiting" => spawned[i] = 1
            /\ Handled(i) => spawned[i] = 1 /\ Exited(i))
    /\ [][\A i \in Requests :
            spawned[i]' # spawned[i] => pc[i] = "idle" /\ spawned[i]' = 1]_vars

C8_Witness ==
    \E i, j \in Requests :
        /\ i # j /\ path[i] = path[j] /\ Handled(i) /\ Handled(j)
        /\ result[i].returncode # 0 /\ result[j] = result[i]
        /\ spawned[i] = 1 /\ spawned[j] = 1

\* C10: a request is answered only after its child has exited: while the
\* child runs the request waits and has no response, the wait ends only
\* with the exit of the child, a request whose child never exits is never
\* answered, and every other request can still arrive and complete.
C10_BlocksUntilExit ==
    /\ [](\A i \in Requests :
            /\ status[i] # 0 /\ spawned[i] > 0 => Exited(i)
            /\ child[i] = "running"
                 => pc[i] = "waiting" /\ status[i] = 0 /\ body[i] = <<>>
            /\ hangs[i] => pc[i] = "waiting"
            /\ pc[i] = "idle" =>
                 \A p \in Paths :
                    Matched(p) /\ shlex_split(view_command(p)).ok
                        => ENABLED Launch(i, p, FALSE)
            /\ pc[i] = "waiting" /\ ~hangs[i]
                 => ENABLED (\E o \in Outcomes : ChildExit(i, o)))
    /\ [][\A i \in Requests :
            pc[i] = "waiting" /\ pc[i]' # "waiting" => child[i]' = "exited"]_vars

C10_Witness ==
    \E i, j \in Requests :
        /\ hangs[i] /\ pc[i] = "waiting" /\ status[i] = 0
        /\ pc[j] = "done" /\ Exited(j) /\ status[j] = 200


(***************************************************************************)
(* Claims about convert.py.                                                *)
(***************************************************************************)
\* the words of a text: what the blanks separate
RECURSIVE Words(_)
Words(s) ==
    IF s = <<>> THEN << <<>> >>
    ELSE LET rest == Words(Tail(s))
         IN  IF Head(s) = " "
             THEN << <<>> >> \o rest
             ELSE << <<Head(s)>> \o rest[1] >> \o Tail(rest)

HexChars == {HexDigits[k] : k \in 1..16}

\* a word that is a literal: 0b and binary digits, 0x and hexadecimal digits
IsBinaryLiteral(w) ==
    /\ Len(w) >= 3 /\ w[1] = "0" /\ w[2] = "b"
    /\ \A k \in 3..Len(w) : w[k] \in Bits

IsHexLiteral(w) ==
    /\ Len(w) >= 3 /\ w[1] = "0" /\ w[2] = "x"
    /\ \A k \in 3..Len(w) : w[k] \in HexChars

\* the value of hexadecimal digits
RECURSIVE HexValue(_)
HexValue(ds) ==
    IF ds = <<>> THEN 0
    ELSE 16 * HexValue(SubSeq(ds, 1, Len(ds) - 1))
            + (CHOOSE v \in 0..15 : HexDigits[v + 1] = ds[Len(ds)])

\* C9: the script rewrites the file so that every 0b literal is the 0x
\* literal of the same value and every other text, existing 0x literals
\* among it, is as it was: word by word, a binary literal has become a
\* hexadecimal literal of its value and a hexadecimal literal is unchanged.
C9_OnlyBinaryLiteralsRewritten ==
    cpc = "done" =>
        /\ Len(Words(content)) = Len(Words(original))
        /\ \A k \in 1..Len(Words(original)) :
             LET old == Words(original)[k]
                 new == Words(content)[k]
             IN  /\ IsBinaryLiteral(old) =>
                       /\ IsHexLiteral(new)
                       /\ HexValue(SubSeq(new, 3, Len(new)))
                            = IntBase2(SubSeq(old, 3, Len(old)))
                 /\ IsHexLiteral(old) => new = old

====
